---- MODULE Spec2Model ----
(***************************************************************************)
(* hifipower: power sequencing of the AC-1 two-relay unit (hifipower.py)   *)
(* and of the single-relay driver (hifipower/driver.py) with its web API   *)
(* (hifipower/main.py).                                                    *)
(*                                                                         *)
(* GPIO lines are the shared state.  Every GPIO.input / GPIO.output /      *)
(* time.sleep of the code is one step of the thread that runs it; the      *)
(* local computation between two such calls belongs to the step before.    *)
(* Request handlers run on the threads of the Flask server, the on/off     *)
(* button callback on the GPIO event thread; nothing in the code           *)
(* serialises them.  The two hardware switches change at any time.         *)
(*                                                                         *)
(* A thread's position is its call stack: a sequence of frames             *)
(* <<function, place>>, the place being the source line the frame is at    *)
(* (for relayN_active, which is one line: the operand being evaluated).    *)
(***************************************************************************)
EXTENDS Integers, Sequences, FiniteSets, TLC

\* Two threads of control that can run a handler each.
Threads == {"w1", "w2"}

\* ON, OFF = GPIO.HIGH, GPIO.LOW
ON == 1
OFF == 0

\* time.sleep(5) of power_on, time.sleep(15) of power_off, in seconds
SettleDelay == 5
CoolDownDelay == 15

\* The clock advances in ticks of this many seconds.
TickLen == 5

VARIABLES
    auto_mode_in,      \* input line: 1 = automatic (software) control
    manual_mode_in,    \* input line: 1 = manual override ON
    relay_out_1,       \* output line of the channel 1 relay
    relay_out_2,       \* output line of the channel 2 relay
    handler,           \* per thread: the route or callback being served, or "idle"
    stack,             \* per thread: call stack, innermost frame first
    ret,               \* per thread: <<value>> a function is returning, else <<>>
    power_state,       \* per thread: local power_state of power_on / power_off
    toggle_state,      \* per thread: local power_state of power_toggle
    timer,             \* per thread: seconds left of the running time.sleep
    wlog,              \* per thread: relay writes and sleeps of this invocation
    called,            \* per thread: sequencer functions this invocation called
    drv_auto_mode_in,  \* driver.py: input line, truthy = automatic control
    control_out,       \* driver.py: the control output line
    drv_fn,            \* driver.py, per thread: "turn_on" / "turn_off" / "idle"
    drv_pc,            \* driver.py, per thread: line of output_control, or outcome
    drv_mode,          \* driver.py, per thread: <<automatic_mode()>> once read
    drv_log,           \* driver.py, per thread: values this call wrote
    web_view,          \* main.py, per thread: the view function run, or "idle"
    web_resp,          \* main.py, per thread: HTTP status of the response, 0 = none yet
    process,           \* hifipower.py: "running", or the line of gpio_setup / finish
    last_done,         \* per thread: the route or callback it served before this one
    seen               \* per thread: PowerStates of the lines held during the call

lines == <<auto_mode_in, manual_mode_in, relay_out_1, relay_out_2>>
locals == <<ret, power_state, toggle_state, timer, wlog, called>>
ac1vars == <<auto_mode_in, manual_mode_in, relay_out_1, relay_out_2, handler,
             stack, ret, power_state, toggle_state, timer, wlog, called>>
drvvars == <<drv_auto_mode_in, control_out, drv_fn, drv_pc, drv_mode, drv_log>>
webvars == <<web_view, web_resp>>
auxvars == <<process, last_done, seen>>
outside == <<drvvars, webvars, auxvars>>
vars == <<ac1vars, drvvars, webvars, auxvars>>

Level == {OFF, ON}
Truthy(v) == v # 0

\* GPIO.input(get_channel('relay_out_N'))
relay_out(n) == IF n = 1 THEN relay_out_1 ELSE relay_out_2

relay_active_fn(n) == IF n = 1 THEN "relay1_active" ELSE "relay2_active"
relay_fn(n) == IF n = 1 THEN "relay1" ELSE "relay2"

At(t, f, p) == stack[t] # <<>> /\ Head(stack[t]) = <<f, p>>

\* Calls: the frames a call puts on top of the continuation frame k.
call_get_power_state(k) == << <<"get_power_state", "217">>, k >>
call_relay_active(n, k) == << <<relay_active_fn(n), "manual">>, k >>

Routes == {"/power", "/power/1", "/power/2", "/power/on", "/power/off",
           "/power/toggle", "/power/1/on", "/power/1/off", "/power/2/on",
           "/power/2/off"}

\* app.route(...): the view function of a route, up to its first line access
view(route) ==
    CASE route = "/power"        -> call_get_power_state(<<"output_status", "127">>)
      [] route = "/power/1"      -> << <<"relay1_active", "manual">> >>
      [] route = "/power/2"      -> << <<"relay2_active", "manual">> >>
      [] route = "/power/on"     -> call_get_power_state(<<"power_on", "281">>)
      [] route = "/power/off"    -> call_get_power_state(<<"power_off", "298">>)
      [] route = "/power/toggle" -> call_get_power_state(<<"power_toggle", "317">>)
      [] route = "/power/1/on"   -> << <<"out1_on", "91">> >>
      [] route = "/power/1/off"  -> << <<"out1_off", "96">> >>
      [] route = "/power/2/on"   -> << <<"out2_on", "101">> >>
      [] route = "/power/2/off"  -> << <<"out2_off", "106">> >>

\* the sequencer function a view calls first, if any
view_calls(route) ==
    CASE route = "/power/on"  -> <<"power_on">>
      [] route = "/power/off" -> <<"power_off">>
      [] route \in {"/power/toggle", "onoff_button"} -> <<"power_toggle">>
      [] OTHER -> <<>>

\* the driver module of the single-relay daemon, not in use
DriverIdle ==
    /\ drv_auto_mode_in = 0
    /\ control_out = FALSE
    /\ drv_fn = [t \in Threads |-> "idle"]
    /\ drv_pc = [t \in Threads |-> "idle"]
    /\ drv_mode = [t \in Threads |-> <<>>]
    /\ drv_log = [t \in Threads |-> <<>>]
    /\ web_view = [t \in Threads |-> "idle"]
    /\ web_resp = [t \in Threads |-> 0]

\* nothing served before, no call watched
Unobserved ==
    /\ last_done = [t \in Threads |-> "none"]
    /\ seen = [t \in Threads |-> {}]

\* hifipower.py after gpio_setup(): both relay outputs set up with initial=OFF,
\* the switches wherever they are
Init ==
    /\ DriverIdle
    /\ Unobserved
    /\ process = "running"
    /\ auto_mode_in \in Level
    /\ manual_mode_in \in Level
    /\ relay_out_1 = OFF
    /\ relay_out_2 = OFF
    /\ handler = [t \in Threads |-> "idle"]
    /\ stack = [t \in Threads |-> <<>>]
    /\ ret = [t \in Threads |-> <<>>]
    /\ power_state = [t \in Threads |-> <<>>]
    /\ toggle_state = [t \in Threads |-> <<>>]
    /\ timer = [t \in Threads |-> 0]
    /\ wlog = [t \in Threads |-> <<>>]
    /\ called = [t \in Threads |-> <<>>]

----
\* Bookkeeping shared by the steps

\* the handlers run from the end of gpio_setup() (webapi() is started after
\* it) until the process has exited
Alive == process \notin {"gpio_setup:194", "gpio_setup:195", "exited"}

\* thread t moves to stack stk without touching a line
Goto(t, stk) ==
    /\ Alive
    /\ stack' = [stack EXCEPT ![t] = stk]
    /\ UNCHANGED <<lines, outside>>

\* function f of thread t returns v to its caller
Return(t, f, v) ==
    /\ Goto(t, << <<f, "return">> >> \o Tail(stack[t]))
    /\ ret' = [ret EXCEPT ![t] = <<v>>]

\* GPIO.output(channel, state) of relayN(state) by thread t, which goes on at stk
Output(t, n, state, stk) ==
    /\ Alive
    /\ relay_out_1' = IF n = 1 THEN state ELSE relay_out_1
    /\ relay_out_2' = IF n = 2 THEN state ELSE relay_out_2
    /\ UNCHANGED <<auto_mode_in, manual_mode_in, outside>>
    /\ wlog' = [wlog EXCEPT ![t] = Append(@, <<relay_fn(n), state>>)]
    /\ stack' = [stack EXCEPT ![t] = stk]

----
\* The hardware switches and the clock

AutoModeSwitch ==
    /\ auto_mode_in' = 1 - auto_mode_in
    /\ UNCHANGED <<manual_mode_in, relay_out_1, relay_out_2, handler, stack, locals,
                   outside>>

ManualModeSwitch ==
    /\ manual_mode_in' = 1 - manual_mode_in
    /\ UNCHANGED <<auto_mode_in, relay_out_1, relay_out_2, handler, stack, locals,
                   outside>>

\* TickLen seconds pass for every sleeping thread
Tick ==
    /\ \E t \in Threads : timer[t] > 0
    /\ timer' = [t \in Threads |-> IF timer[t] > TickLen THEN timer[t] - TickLen
                                   ELSE 0]
    /\ UNCHANGED <<lines, handler, stack, ret, power_state, toggle_state, wlog,
                   called, outside>>

----
\* Entry points

\* an HTTP request for route arrives at an idle server thread, while app.run()
\* serves
Request(t, route) ==
    /\ process = "running"
    /\ handler[t] = "idle"
    /\ handler' = [handler EXCEPT ![t] = route]
    /\ Goto(t, view(route))
    /\ called' = [called EXCEPT ![t] = view_calls(route)]
    /\ UNCHANGED <<ret, power_state, toggle_state, timer, wlog>>

\* GPIO.add_event_detect(onoff_button, RISING, callback=power_toggle): the
\* event thread runs one callback at a time
OnOffButton(t) ==
    /\ handler[t] = "idle"
    /\ \A u \in Threads : handler[u] # "onoff_button"
    /\ handler' = [handler EXCEPT ![t] = "onoff_button"]
    /\ Goto(t, call_get_power_state(<<"power_toggle", "317">>))
    /\ called' = [called EXCEPT ![t] = view_calls("onoff_button")]
    /\ UNCHANGED <<ret, power_state, toggle_state, timer, wlog>>

\* the handler is over: the response is sent / the callback returns
Respond(t) ==
    /\ Alive
    /\ handler[t] # "idle"
    /\ stack[t] = <<>>
    /\ handler' = [handler EXCEPT ![t] = "idle"]
    /\ power_state' = [power_state EXCEPT ![t] = <<>>]
    /\ toggle_state' = [toggle_state EXCEPT ![t] = <<>>]
    /\ wlog' = [wlog EXCEPT ![t] = <<>>]
    /\ called' = [called EXCEPT ![t] = <<>>]
    /\ UNCHANGED <<lines, stack, ret, timer, outside>>

\* Respond, the route served being noted as the thread's previous one
RespondNoted(t) ==
    /\ Alive
    /\ handler[t] # "idle"
    /\ stack[t] = <<>>
    /\ handler' = [handler EXCEPT ![t] = "idle"]
    /\ power_state' = [power_state EXCEPT ![t] = <<>>]
    /\ toggle_state' = [toggle_state EXCEPT ![t] = <<>>]
    /\ wlog' = [wlog EXCEPT ![t] = <<>>]
    /\ called' = [called EXCEPT ![t] = <<>>]
    /\ last_done' = [last_done EXCEPT ![t] = handler[t]]
    /\ UNCHANGED <<lines, stack, ret, timer, drvvars, webvars, process, seen>>

----
\* relay1_active / relay2_active:
\*     return manual_override_check() or auto_control_check() and relayN()

\* `x or ...`: a truthy left operand is the value, else the right one decides
relay_active_or(mo) == IF Truthy(mo) THEN <<mo>> ELSE <<>>

\* relay_active_and without the automatic-mode operand: `manual or relayN()`
relay_active_and_dropped(ac) == <<>>

\* `x and ...`: a falsy left operand is the value, else the right one decides
relay_active_and(ac) == IF ~Truthy(ac) THEN <<ac>> ELSE <<>>

\* manual_override_check()
RelayActiveManual(t) ==
    \E n \in {1, 2} :
        /\ At(t, relay_active_fn(n), "manual")
        /\ LET r == relay_active_or(manual_mode_in) IN
            IF r # <<>>
            THEN Return(t, relay_active_fn(n), r[1])
            ELSE /\ Goto(t, << <<relay_active_fn(n), "auto">> >> \o Tail(stack[t]))
                 /\ UNCHANGED ret
        /\ UNCHANGED <<handler, power_state, toggle_state, timer, wlog, called>>

\* auto_control_check()
RelayActiveAuto(t) ==
    \E n \in {1, 2} :
        /\ At(t, relay_active_fn(n), "auto")
        /\ LET r == relay_active_and(auto_mode_in) IN
            IF r # <<>>
            THEN Return(t, relay_active_fn(n), r[1])
            ELSE /\ Goto(t, << <<relay_active_fn(n), "relay">> >> \o Tail(stack[t]))
                 /\ UNCHANGED ret
        /\ UNCHANGED <<handler, power_state, toggle_state, timer, wlog, called>>

\* relayN(): GPIO.input on the output line
RelayActiveRelay(t) ==
    \E n \in {1, 2} :
        /\ At(t, relay_active_fn(n), "relay")
        /\ Return(t, relay_active_fn(n), relay_out(n))
        /\ UNCHANGED <<handler, power_state, toggle_state, timer, wlog, called>>

----
\* get_power_state

\* get_power_state_217 without the automatic-mode test
get_power_state_217_dropped(ac) == <<>>

\* if not auto_control_check(): return -1
get_power_state_217(ac) == IF ~Truthy(ac) THEN <<-1>> ELSE <<>>

\* if relay2_active(): return 2
get_power_state_219(active2) == IF Truthy(active2) THEN <<2>> ELSE <<>>

\* if relay1_active(): return 1; return 0
get_power_state_222(active1) == IF Truthy(active1) THEN <<1>> ELSE <<0>>

GetPowerState217(t) ==
    /\ At(t, "get_power_state", "217")
    /\ LET r == get_power_state_217(auto_mode_in) IN
        IF r # <<>>
        THEN Return(t, "get_power_state", r[1])
        ELSE /\ Goto(t, call_relay_active(2, <<"get_power_state", "219">>)
                        \o Tail(stack[t]))
             /\ UNCHANGED ret
    /\ UNCHANGED <<handler, power_state, toggle_state, timer, wlog, called>>

\* relay2_active() returns into line 219
GetPowerState219(t) ==
    /\ At(t, "relay2_active", "return")
    /\ Len(stack[t]) > 1
    /\ stack[t][2] = <<"get_power_state", "219">>
    /\ LET r == get_power_state_219(ret[t][1])
           rest == Tail(stack[t]) IN
        IF r # <<>>
        THEN /\ Goto(t, << <<"get_power_state", "return">> >> \o Tail(rest))
             /\ ret' = [ret EXCEPT ![t] = r]
        ELSE /\ Goto(t, call_relay_active(1, <<"get_power_state", "222">>)
                        \o Tail(rest))
             /\ ret' = [ret EXCEPT ![t] = <<>>]
    /\ UNCHANGED <<handler, power_state, toggle_state, timer, wlog, called>>

\* relay1_active() returns into line 222
GetPowerState222(t) ==
    /\ At(t, "relay1_active", "return")
    /\ Len(stack[t]) > 1
    /\ stack[t][2] = <<"get_power_state", "222">>
    /\ Goto(t, << <<"get_power_state", "return">> >> \o Tail(Tail(stack[t])))
    /\ ret' = [ret EXCEPT ![t] = get_power_state_222(ret[t][1])]
    /\ UNCHANGED <<handler, power_state, toggle_state, timer, wlog, called>>

----
\* output_status and the routes /power/1, /power/2

\* if get_power_state() == -1: msg = ...; then relay1_active()
OutputStatus127(t) ==
    /\ At(t, "get_power_state", "return")
    /\ stack[t][2] = <<"output_status", "127">>
    /\ Goto(t, call_relay_active(1, <<"output_status", "130">>)
               \o Tail(Tail(stack[t])))
    /\ ret' = [ret EXCEPT ![t] = <<>>]
    /\ UNCHANGED <<handler, power_state, toggle_state, timer, wlog, called>>

\* main_pwr = ... relay1_active(); then relay2_active()
OutputStatus130(t) ==
    /\ At(t, "relay1_active", "return")
    /\ Len(stack[t]) > 1
    /\ stack[t][2] = <<"output_status", "130">>
    /\ Goto(t, call_relay_active(2, <<"output_status", "131">>)
               \o Tail(Tail(stack[t])))
    /\ ret' = [ret EXCEPT ![t] = <<>>]
    /\ UNCHANGED <<handler, power_state, toggle_state, timer, wlog, called>>

\* amp_pwr = ... relay2_active(); return the text
OutputStatus131(t) ==
    /\ At(t, "relay2_active", "return")
    /\ Len(stack[t]) > 1
    /\ stack[t][2] = <<"output_status", "131">>
    /\ Goto(t, Tail(Tail(stack[t])))
    /\ ret' = [ret EXCEPT ![t] = <<>>]
    /\ UNCHANGED <<handler, power_state, toggle_state, timer, wlog, called>>

\* app.route('/power/1')(relay1_active), app.route('/power/2')(relay2_active):
\* the value is the response
RelayActiveView(t) ==
    \E n \in {1, 2} :
        /\ At(t, relay_active_fn(n), "return")
        /\ Len(stack[t]) = 1
        /\ Goto(t, <<>>)
        /\ ret' = [ret EXCEPT ![t] = <<>>]
        /\ UNCHANGED <<handler, power_state, toggle_state, timer, wlog, called>>

----
\* power_on

\* power_on_281 with `else` in place of `elif power_state == 0`
power_on_281_else(ps) ==
    IF ps = 1 THEN << <<"power_on", "284">> >>
    ELSE << <<"power_on", "287">> >>

\* the branch of power_on on its power_state: the frame to go on at, if any
power_on_281(ps) ==
    IF ps = 1 THEN << <<"power_on", "284">> >>
    ELSE IF ps = 0 THEN << <<"power_on", "287">> >>
    ELSE <<>>

\* sleep_over of a sleep that returns at once
sleep_over_at_once(left) == TRUE

\* time.sleep(secs) returns once secs have passed: left = seconds still to wait
sleep_over(left) == left = 0

\* power_state = get_power_state(), and the branch on it
PowerOn281(t) ==
    /\ At(t, "get_power_state", "return")
    /\ stack[t][2] = <<"power_on", "281">>
    /\ Goto(t, power_on_281(ret[t][1]) \o Tail(Tail(stack[t])))
    /\ power_state' = [power_state EXCEPT ![t] = ret[t]]
    /\ ret' = [ret EXCEPT ![t] = <<>>]
    /\ UNCHANGED <<handler, toggle_state, timer, wlog, called>>

\* PowerOn284 switching channel 1
PowerOn284_channel1(t) ==
    /\ At(t, "power_on", "284")
    /\ Output(t, 1, ON, Tail(stack[t]))
    /\ UNCHANGED <<handler, ret, power_state, toggle_state, timer, called>>

\* power_state == 1: relay2(ON)
PowerOn284(t) ==
    /\ At(t, "power_on", "284")
    /\ Output(t, 2, ON, Tail(stack[t]))
    /\ UNCHANGED <<handler, ret, power_state, toggle_state, timer, called>>

\* power_state == 0: relay1(ON), then time.sleep(5) begins
PowerOn287(t) ==
    /\ At(t, "power_on", "287")
    /\ Output(t, 1, ON, << <<"power_on", "288">> >> \o Tail(stack[t]))
    /\ timer' = [timer EXCEPT ![t] = SettleDelay]
    /\ UNCHANGED <<handler, ret, power_state, toggle_state, called>>

\* time.sleep(5) returns
PowerOn288(t) ==
    /\ At(t, "power_on", "288")
    /\ sleep_over(timer[t])
    /\ Goto(t, << <<"power_on", "289">> >> \o Tail(stack[t]))
    /\ wlog' = [wlog EXCEPT ![t] = Append(@, <<"sleep", SettleDelay - timer[t]>>)]
    /\ timer' = [timer EXCEPT ![t] = 0]
    /\ UNCHANGED <<handler, ret, power_state, toggle_state, called>>

\* PowerOn289 giving the sequence up when automatic control has been switched
\* off during the sleep
PowerOn289_cancelled(t) ==
    /\ At(t, "power_on", "289")
    /\ IF auto_mode_in = 0
       THEN Goto(t, Tail(stack[t])) /\ UNCHANGED wlog
       ELSE Output(t, 2, ON, Tail(stack[t]))
    /\ UNCHANGED <<handler, ret, power_state, toggle_state, timer, called>>

\* relay2(ON)
PowerOn289(t) ==
    /\ At(t, "power_on", "289")
    /\ Output(t, 2, ON, Tail(stack[t]))
    /\ UNCHANGED <<handler, ret, power_state, toggle_state, timer, called>>

----
\* power_off

\* power_off_298 without the elif of line 304
power_off_298_no_elif(ps) ==
    IF ps = 2 THEN << <<"power_off", "301">> >>
    ELSE <<>>

\* the branch of power_off on its power_state
power_off_298(ps) ==
    IF ps = 2 THEN << <<"power_off", "301">> >>
    ELSE IF ps = 1 THEN << <<"power_off", "306">> >>
    ELSE <<>>

\* power_state = get_power_state(), and the branch on it
PowerOff298(t) ==
    /\ At(t, "get_power_state", "return")
    /\ stack[t][2] = <<"power_off", "298">>
    /\ Goto(t, power_off_298(ret[t][1]) \o Tail(Tail(stack[t])))
    /\ power_state' = [power_state EXCEPT ![t] = ret[t]]
    /\ ret' = [ret EXCEPT ![t] = <<>>]
    /\ UNCHANGED <<handler, toggle_state, timer, wlog, called>>

\* PowerOff301 switching channel 1 first
PowerOff301_channel1(t) ==
    /\ At(t, "power_off", "301")
    /\ Output(t, 1, OFF, << <<"power_off", "302">> >> \o Tail(stack[t]))
    /\ timer' = [timer EXCEPT ![t] = CoolDownDelay]
    /\ UNCHANGED <<handler, ret, power_state, toggle_state, called>>

\* power_state == 2: relay2(OFF), then time.sleep(15) begins
PowerOff301(t) ==
    /\ At(t, "power_off", "301")
    /\ Output(t, 2, OFF, << <<"power_off", "302">> >> \o Tail(stack[t]))
    /\ timer' = [timer EXCEPT ![t] = CoolDownDelay]
    /\ UNCHANGED <<handler, ret, power_state, toggle_state, called>>

\* time.sleep(15) returns
PowerOff302(t) ==
    /\ At(t, "power_off", "302")
    /\ sleep_over(timer[t])
    /\ Goto(t, << <<"power_off", "303">> >> \o Tail(stack[t]))
    /\ wlog' = [wlog EXCEPT ![t] = Append(@, <<"sleep", CoolDownDelay - timer[t]>>)]
    /\ timer' = [timer EXCEPT ![t] = 0]
    /\ UNCHANGED <<handler, ret, power_state, toggle_state, called>>

\* relay1(OFF)
PowerOff303(t) ==
    /\ At(t, "power_off", "303")
    /\ Output(t, 1, OFF, Tail(stack[t]))
    /\ UNCHANGED <<handler, ret, power_state, toggle_state, timer, called>>

\* power_state == 1: relay1(OFF)
PowerOff306(t) ==
    /\ At(t, "power_off", "306")
    /\ Output(t, 1, OFF, Tail(stack[t]))
    /\ UNCHANGED <<handler, ret, power_state, toggle_state, timer, called>>

----
\* power_toggle

\* power_toggle_317 as a flip: anything that is on is switched off
power_toggle_317_flip(ps) ==
    IF ps < 0 THEN "return"
    ELSE IF ps >= 1 THEN "power_off"
    ELSE "get_power_state"

\* what power_toggle does on its power_state: "return", call "power_off", or
\* go on to the elif, which calls "get_power_state" again
power_toggle_317(ps) ==
    IF ps < 0 THEN "return"
    ELSE IF ps = 2 THEN "power_off"
    ELSE "get_power_state"

\* elif get_power_state() < 2: power_on()
power_toggle_323(ps) == ps < 2

\* power_state = get_power_state(), lines 318 to 323
PowerToggle317(t) ==
    /\ At(t, "get_power_state", "return")
    /\ stack[t][2] = <<"power_toggle", "317">>
    /\ LET do == power_toggle_317(ret[t][1])
           rest == Tail(Tail(stack[t])) IN
        /\ Goto(t, CASE do = "return" -> rest
                     [] do = "power_off" ->
                            call_get_power_state(<<"power_off", "298">>) \o rest
                     [] do = "get_power_state" ->
                            call_get_power_state(<<"power_toggle", "323">>) \o rest)
        /\ called' = [called EXCEPT ![t] =
                         IF do = "power_off" THEN Append(@, "power_off") ELSE @]
    /\ toggle_state' = [toggle_state EXCEPT ![t] = ret[t]]
    /\ ret' = [ret EXCEPT ![t] = <<>>]
    /\ UNCHANGED <<handler, power_state, timer, wlog>>

\* the second get_power_state() returns into line 323
PowerToggle323(t) ==
    /\ At(t, "get_power_state", "return")
    /\ stack[t][2] = <<"power_toggle", "323">>
    /\ LET rest == Tail(Tail(stack[t])) IN
        IF power_toggle_323(ret[t][1])
        THEN /\ Goto(t, call_get_power_state(<<"power_on", "281">>) \o rest)
             /\ called' = [called EXCEPT ![t] = Append(@, "power_on")]
        ELSE /\ Goto(t, rest)
             /\ UNCHANGED called
    /\ ret' = [ret EXCEPT ![t] = <<>>]
    /\ UNCHANGED <<handler, power_state, toggle_state, timer, wlog>>

----
\* The per-channel routes

\* out1_on, out1_off, out2_on, out2_off: relayN(state), whatever the mode
out_relay(f) == IF f \in {"out1_on", "out1_off"} THEN 1 ELSE 2
out_state(f) == IF f \in {"out1_on", "out2_on"} THEN ON ELSE OFF

OutWrite(t) ==
    /\ stack[t] # <<>>
    /\ Head(stack[t]) \in {<<"out1_on", "91">>, <<"out1_off", "96">>,
                           <<"out2_on", "101">>, <<"out2_off", "106">>}
    /\ LET f == Head(stack[t])[1] IN
        Output(t, out_relay(f), out_state(f), Tail(stack[t]))
    /\ UNCHANGED <<handler, ret, power_state, toggle_state, timer, called>>

----
\* the steps of get_power_state and relayN_active
Evaluate(t) ==
    \/ RelayActiveManual(t)
    \/ RelayActiveAuto(t)
    \/ RelayActiveRelay(t)
    \/ GetPowerState217(t)
    \/ GetPowerState219(t)
    \/ GetPowerState222(t)

\* the steps of a handler after its entry, except the per-channel writes
Work(t) ==
    \/ Evaluate(t)
    \/ RelayActiveView(t)
    \/ OutputStatus127(t)
    \/ OutputStatus130(t)
    \/ OutputStatus131(t)
    \/ PowerOn281(t)
    \/ PowerOn284(t)
    \/ PowerOn287(t)
    \/ PowerOn288(t)
    \/ PowerOn289(t)
    \/ PowerOff298(t)
    \/ PowerOff301(t)
    \/ PowerOff302(t)
    \/ PowerOff303(t)
    \/ PowerOff306(t)
    \/ PowerToggle317(t)
    \/ PowerToggle323(t)

\* the steps of a thread other than taking a request
Run(t) ==
    \/ OnOffButton(t)
    \/ Respond(t)
    \/ Work(t)

Step(t) ==
    \/ \E route \in Routes : Request(t, route)
    \/ OutWrite(t)
    \/ Run(t)

Next ==
    \/ AutoModeSwitch
    \/ ManualModeSwitch
    \/ Tick
    \/ \E t \in Threads : Step(t)

Spec == Init /\ [][Next]_vars

\* the steps of thread t that follow the first write of a sequence
Sequence(t) ==
    \/ PowerOn288(t)
    \/ PowerOn289(t)
    \/ PowerOff302(t)
    \/ PowerOff303(t)

\* The daemon when no client uses the per-channel routes: the status routes,
\* power/on, power/off, power/toggle and the button
SequencerRoutes == {"/power", "/power/1", "/power/2", "/power/on", "/power/off",
                    "/power/toggle"}

StepSequencer(t) ==
    \/ \E route \in SequencerRoutes : Request(t, route)
    \/ Run(t)

NextSequencer ==
    \/ AutoModeSwitch
    \/ ManualModeSwitch
    \/ Tick
    \/ \E t \in Threads : StepSequencer(t)

SpecSequencer == Init /\ [][NextSequencer]_vars

----
\* gpio_setup and the exit handler

\* main() enters gpio_setup(): the relay lines are at whatever level they
\* were left at
InitExit ==
    /\ DriverIdle
    /\ Unobserved
    /\ process = "gpio_setup:194"
    /\ auto_mode_in \in Level
    /\ manual_mode_in \in Level
    /\ relay_out_1 \in Level
    /\ relay_out_2 \in Level
    /\ handler = [t \in Threads |-> "idle"]
    /\ stack = [t \in Threads |-> <<>>]
    /\ ret = [t \in Threads |-> <<>>]
    /\ power_state = [t \in Threads |-> <<>>]
    /\ toggle_state = [t \in Threads |-> <<>>]
    /\ timer = [t \in Threads |-> 0]
    /\ wlog = [t \in Threads |-> <<>>]
    /\ called = [t \in Threads |-> <<>>]

\* a line of gpio_setup / finish: relay n, if any, is set to OFF and the
\* main thread goes on at `to`
MainLine(n, to) ==
    /\ process' = to
    /\ relay_out_1' = IF n = 1 THEN OFF ELSE relay_out_1
    /\ relay_out_2' = IF n = 2 THEN OFF ELSE relay_out_2
    /\ UNCHANGED <<auto_mode_in, manual_mode_in, handler, stack, locals, drvvars,
                   webvars, last_done, seen>>

\* GPIO.setup(config.get('relay_out_1'), GPIO.OUT, initial=OFF)
GpioSetup194 ==
    /\ process = "gpio_setup:194"
    /\ MainLine(1, "gpio_setup:195")

\* GPIO.setup(config.get('relay_out_2'), GPIO.OUT, initial=OFF); gpio_setup
\* returns and webapi() starts serving
GpioSetup195 ==
    /\ process = "gpio_setup:195"
    /\ MainLine(2, "running")

\* SIGINT / SIGTERM: signal_handler raises KeyboardInterrupt, main() ends and
\* the interpreter calls finish(), registered with atexit; the threads that
\* serve requests and callbacks are not stopped
ProcessEnds ==
    /\ process = "running"
    /\ MainLine(0, "finish:171")

\* led(OFF, blink=5, duration=5)
Finish171 ==
    /\ process = "finish:171"
    /\ MainLine(0, "finish:172")

\* relay1(OFF)
Finish172 ==
    /\ process = "finish:172"
    /\ MainLine(1, "finish:173")

\* relay2(OFF)
Finish173 ==
    /\ process = "finish:173"
    /\ MainLine(2, "finish:174")

\* GPIO.cleanup(); finish() returns and the process exits
Finish174 ==
    /\ process = "finish:174"
    /\ MainLine(0, "exited")

NextExit ==
    \/ GpioSetup194
    \/ GpioSetup195
    \/ ProcessEnds
    \/ Finish171
    \/ Finish172
    \/ Finish173
    \/ Finish174
    \/ AutoModeSwitch
    \/ ManualModeSwitch
    \/ Tick
    \/ Step("w1")

SpecExit == InitExit /\ [][NextExit]_vars

\* The threads are scheduled and time passes: a sleep that has lasted its time
\* returns, and the write that follows it is made.
Fairness ==
    /\ WF_vars(Tick)
    /\ \A t \in Threads : WF_vars(Sequence(t))

SpecLive == Spec /\ Fairness

\* The evaluator on lines that hold still: one thread serves requests, the
\* switches stay as they are, the relay outputs start at any level (the
\* per-channel routes of Spec set them to any level in either mode).
InitStill ==
    /\ DriverIdle
    /\ Unobserved
    /\ process = "running"
    /\ auto_mode_in \in Level
    /\ manual_mode_in \in Level
    /\ relay_out_1 \in Level
    /\ relay_out_2 \in Level
    /\ handler = [t \in Threads |-> "idle"]
    /\ stack = [t \in Threads |-> <<>>]
    /\ ret = [t \in Threads |-> <<>>]
    /\ power_state = [t \in Threads |-> <<>>]
    /\ toggle_state = [t \in Threads |-> <<>>]
    /\ timer = [t \in Threads |-> 0]
    /\ wlog = [t \in Threads |-> <<>>]
    /\ called = [t \in Threads |-> <<>>]

NextStill == Tick \/ Step("w1")

SpecStill == InitStill /\ [][NextStill]_vars

\* One thread serving one request after another on switches that stay as they
\* are, with the route it served before kept in last_done
NextAlone ==
    \/ Tick
    \/ \E route \in Routes : Request("w1", route)
    \/ OnOffButton("w1")
    \/ OutWrite("w1")
    \/ Work("w1")
    \/ RespondNoted("w1")

SpecAlone == InitStill /\ [][NextAlone]_vars

\* the shape of the states of Spec
TypeOK ==
    /\ lines \in Level \X Level \X Level \X Level
    /\ \A t \in Threads :
        /\ handler[t] \in Routes \cup {"idle", "onoff_button"}
        /\ Len(stack[t]) <= 3
        /\ Len(ret[t]) <= 1
        /\ timer[t] \in 0..CoolDownDelay
        /\ Len(wlog[t]) <= 3
        /\ web_view[t] = "idle"
        /\ web_resp[t] = 0
        /\ last_done[t] = "none"
        /\ seen[t] = {}
    /\ process = "running"

----
\* hifipower/driver.py: the single-relay driver

\* ON, OFF = True, False
DRV_ON == TRUE
DRV_OFF == FALSE

\* the state turn_on / turn_off pass to output_control
turn_state(f) == IF f = "turn_on" THEN DRV_ON ELSE DRV_OFF

\* output_control_68 without the test
output_control_68_dropped(mode) == "71"

\* if not automatic_mode(): raise AutoControlDisabled
output_control_68(mode) == IF ~Truthy(mode) THEN "AutoControlDisabled" ELSE "71"

\* the AC-1 daemon, not in use
AC1Idle ==
    /\ Unobserved
    /\ process = "running"
    /\ auto_mode_in = 0
    /\ manual_mode_in = 0
    /\ relay_out_1 = OFF
    /\ relay_out_2 = OFF
    /\ handler = [t \in Threads |-> "idle"]
    /\ stack = [t \in Threads |-> <<>>]
    /\ ret = [t \in Threads |-> <<>>]
    /\ power_state = [t \in Threads |-> <<>>]
    /\ toggle_state = [t \in Threads |-> <<>>]
    /\ timer = [t \in Threads |-> 0]
    /\ wlog = [t \in Threads |-> <<>>]
    /\ called = [t \in Threads |-> <<>>]

\* after driver.gpio_setup(): control_out is set up as an output with no
\* initial level given, the mode switch is wherever it is
InitDriver ==
    /\ AC1Idle
    /\ drv_auto_mode_in \in Level
    /\ control_out \in BOOLEAN
    /\ drv_fn = [t \in Threads |-> "idle"]
    /\ drv_pc = [t \in Threads |-> "idle"]
    /\ drv_mode = [t \in Threads |-> <<>>]
    /\ drv_log = [t \in Threads |-> <<>>]
    /\ web_view = [t \in Threads |-> "idle"]
    /\ web_resp = [t \in Threads |-> 0]

DrvAutoModeSwitch ==
    /\ drv_auto_mode_in' = 1 - drv_auto_mode_in
    /\ UNCHANGED <<control_out, drv_fn, drv_pc, drv_mode, drv_log, ac1vars, webvars, auxvars>>

\* turn_on() / turn_off() is called: output_control(ON / OFF) begins
DrvCall(t, f) ==
    /\ drv_pc[t] = "idle"
    /\ drv_fn' = [drv_fn EXCEPT ![t] = f]
    /\ drv_pc' = [drv_pc EXCEPT ![t] = "68"]
    /\ UNCHANGED <<drv_auto_mode_in, control_out, drv_mode, drv_log, ac1vars, webvars, auxvars>>

\* if not automatic_mode(): raise AutoControlDisabled
OutputControl68(t) ==
    /\ drv_pc[t] = "68"
    /\ drv_mode' = [drv_mode EXCEPT ![t] = <<drv_auto_mode_in>>]
    /\ drv_pc' = [drv_pc EXCEPT ![t] = output_control_68(drv_auto_mode_in)]
    /\ UNCHANGED <<drv_auto_mode_in, control_out, drv_fn, drv_log, ac1vars, webvars, auxvars>>

\* GPIO.output(channel, state), and the call returns
OutputControl71(t) ==
    /\ drv_pc[t] = "71"
    /\ control_out' = turn_state(drv_fn[t])
    /\ drv_log' = [drv_log EXCEPT ![t] = Append(@, turn_state(drv_fn[t]))]
    /\ drv_pc' = [drv_pc EXCEPT ![t] = "returned"]
    /\ UNCHANGED <<drv_auto_mode_in, drv_fn, drv_mode, ac1vars, webvars, auxvars>>

\* the caller has the outcome (the return, or the exception)
DrvDone(t) ==
    /\ drv_pc[t] \in {"returned", "AutoControlDisabled"}
    /\ drv_fn' = [drv_fn EXCEPT ![t] = "idle"]
    /\ drv_pc' = [drv_pc EXCEPT ![t] = "idle"]
    /\ drv_mode' = [drv_mode EXCEPT ![t] = <<>>]
    /\ drv_log' = [drv_log EXCEPT ![t] = <<>>]
    /\ UNCHANGED <<drv_auto_mode_in, control_out, ac1vars, webvars, auxvars>>

NextDriver ==
    \/ DrvAutoModeSwitch
    \/ \E t \in Threads :
        \/ \E f \in {"turn_on", "turn_off"} : DrvCall(t, f)
        \/ OutputControl68(t)
        \/ OutputControl71(t)
        \/ DrvDone(t)

SpecDriver == InitDriver /\ [][NextDriver]_vars

----
\* hifipower/main.py: the web API of the single-relay daemon

\* the names the module hifipower/driver.py defines
DriverNames == {"GPIO", "ON", "OFF", "GPIO_DEFINITIONS", "AutoControlDisabled",
                "gpio_setup", "automatic_mode", "output_control", "turn_on",
                "turn_off"}

\* driver.<name>: the attribute, or the AttributeError of the lookup
getattr_driver(name) == IF name \in DriverNames THEN name ELSE "AttributeError"

\* control(): `except driver.AutoControlDisabled` answers 403; any other
\* exception leaves the view, and Flask answers 500
control_73(exc) == IF exc = "AutoControlDisabled" THEN 403 ELSE 500

\* app.route('/')(index), ('/power')(status), ('/power/on')(turn_on),
\* ('/power/off')(turn_off)
WebViews == {"index", "status", "turn_on", "turn_off"}

\* a request arrives at an idle server thread
WebRequest(t, v) ==
    /\ web_view[t] = "idle"
    /\ web_view' = [web_view EXCEPT ![t] = v]
    /\ UNCHANGED <<web_resp, drvvars, ac1vars, auxvars>>

\* index(): return "It works!"
WebIndex(t) ==
    /\ web_view[t] = "index"
    /\ web_resp[t] = 0
    /\ web_resp' = [web_resp EXCEPT ![t] = 200]
    /\ UNCHANGED <<web_view, drvvars, ac1vars, auxvars>>

\* status(): driver.check_output_state() is looked up first; the driver
\* defines no such name, and status() catches nothing
WebStatus65(t) ==
    /\ web_view[t] = "status"
    /\ web_resp[t] = 0
    /\ getattr_driver("check_output_state") = "AttributeError"
    /\ web_resp' = [web_resp EXCEPT ![t] = 500]
    /\ UNCHANGED <<web_view, drvvars, ac1vars, auxvars>>

\* control(state), line 71: driver.set_output(state).  The driver defines no
\* set_output, so the lookup raises before any driver code runs, and the
\* except clause of line 73 decides the response.
WebControl71(t) ==
    /\ web_view[t] \in {"turn_on", "turn_off"}
    /\ web_resp[t] = 0
    /\ getattr_driver("set_output") = "AttributeError"
    /\ web_resp' = [web_resp EXCEPT ![t] = control_73(getattr_driver("set_output"))]
    /\ UNCHANGED <<web_view, drvvars, ac1vars, auxvars>>

\* the response is sent
WebRespond(t) ==
    /\ web_view[t] # "idle"
    /\ web_resp[t] # 0
    /\ web_view' = [web_view EXCEPT ![t] = "idle"]
    /\ web_resp' = [web_resp EXCEPT ![t] = 0]
    /\ UNCHANGED <<drvvars, ac1vars, auxvars>>

NextMain ==
    \/ DrvAutoModeSwitch
    \/ \E t \in Threads :
        \/ \E v \in WebViews : WebRequest(t, v)
        \/ WebIndex(t)
        \/ WebStatus65(t)
        \/ WebControl71(t)
        \/ WebRespond(t)

SpecMain == InitDriver /\ [][NextMain]_vars

----
\* Properties

IsPrefix(s, e) == Len(s) <= Len(e) /\ s = SubSeq(e, 1, Len(s))
LastCalled(t) == IF called[t] = <<>> THEN "none" ELSE called[t][Len(called[t])]
Returning(t, f) == At(t, f, "return")

\* the derived predicate of the evaluation rule: manualOverride OR
\* (autoMode AND channelOutput)
relayActive(mo, am, out) == mo = 1 \/ (am = 1 /\ out = 1)

\* the precedence table of the two-channel evaluation rule
PrecedenceTable(am, mo, out1, out2) ==
    IF am = 0 THEN -1
    ELSE IF relayActive(mo, am, out2) THEN 2
    ELSE IF relayActive(mo, am, out1) THEN 1
    ELSE 0

\* C1: on lines that hold still, for each of the 16 combinations of
\* (autoMode, manualOverride, relay1 output, relay2 output), the value
\* get_power_state returns is the one of the precedence table: -1 when
\* autoMode is false, else 2 when channel 2 is active, else 1 when channel 1
\* is active, else 0.
C1_EvaluatorMatchesTable ==
    \A t \in Threads :
        Returning(t, "get_power_state") =>
            ret[t] = <<PrecedenceTable(auto_mode_in, manual_mode_in,
                                       relay_out_1, relay_out_2)>>

\* C1 witness: get_power_state returns 2 in automatic mode under manual
\* override with both relay outputs off
C1_Witness ==
    \E t \in Threads :
        /\ Returning(t, "get_power_state")
        /\ lines = <<1, 1, OFF, OFF>>
        /\ ret[t] = <<2>>

\* C2: on lines that hold still, for each channel and each of the 8
\* combinations of (manualOverride, autoMode, channel output), relayN_active
\* returns a truthy value exactly when manualOverride OR (autoMode AND
\* channelOutput).
C2_RelayActiveFormula ==
    \A t \in Threads : \A n \in {1, 2} :
        Returning(t, relay_active_fn(n)) =>
            (Truthy(ret[t][1]) <=>
                (manual_mode_in = 1 \/ (auto_mode_in = 1 /\ relay_out(n) = 1)))

\* C2 witness: relay1_active returns truthy under manual override although
\* automatic mode and the channel 1 output are both off
C2_Witness ==
    \E t \in Threads :
        /\ Returning(t, "relay1_active")
        /\ lines = <<0, 1, OFF, ON>>
        /\ Truthy(ret[t][1])

PowerOnFromOff == << <<"relay1", ON>>, <<"sleep", SettleDelay>>, <<"relay2", ON>> >>
PowerOffFromFullOn ==
    << <<"relay2", OFF>>, <<"sleep", CoolDownDelay>>, <<"relay1", OFF>> >>

\* C3: a power_on() that read PowerState Off writes relay 1 ON, sleeps the
\* whole settle delay, then writes relay 2 ON: at every moment its writes and
\* sleeps are a prefix of that sequence, and when it has returned they are
\* exactly that sequence.
C3_PowerOnFromOff ==
    \A t \in Threads :
        (LastCalled(t) = "power_on" /\ power_state[t] = <<0>>) =>
            /\ IsPrefix(wlog[t], PowerOnFromOff)
            /\ stack[t] = <<>> => wlog[t] = PowerOnFromOff

\* C3 witness: a power_on() from Off has returned after its two writes
C3_Witness ==
    \E t \in Threads :
        /\ LastCalled(t) = "power_on"
        /\ power_state[t] = <<0>>
        /\ stack[t] = <<>>
        /\ wlog[t] = PowerOnFromOff

\* C4: a power_off() that read PowerState FullOn writes relay 2 OFF, sleeps
\* the whole cool-down delay, then writes relay 1 OFF: at every moment its
\* writes and sleeps are a prefix of that sequence, and when it has returned
\* they are exactly that sequence.
C4_PowerOffFromFullOn ==
    \A t \in Threads :
        (LastCalled(t) = "power_off" /\ power_state[t] = <<2>>) =>
            /\ IsPrefix(wlog[t], PowerOffFromFullOn)
            /\ stack[t] = <<>> => wlog[t] = PowerOffFromFullOn

\* C4 witness: a power_off() from FullOn has returned after its two writes
C4_Witness ==
    \E t \in Threads :
        /\ LastCalled(t) = "power_off"
        /\ power_state[t] = <<2>>
        /\ stack[t] = <<>>
        /\ wlog[t] = PowerOffFromFullOn

\* C5: a power_on() that read FullOn, a power_off() that read Off, and either
\* of them that read the disabled state (autoMode false) return at once with
\* no relay write made.
C5_NoOpWritesNothing ==
    \A t \in Threads :
        (\/ LastCalled(t) = "power_on" /\ power_state[t] \in {<<2>>, <<-1>>}
         \/ LastCalled(t) = "power_off" /\ power_state[t] \in {<<0>>, <<-1>>}) =>
            /\ wlog[t] = <<>>
            /\ stack[t] = <<>>

\* C5 witness: a power_on() called with autoMode false has returned
C5_Witness ==
    \E t \in Threads :
        /\ handler[t] = "/power/on"
        /\ power_state[t] = <<-1>>
        /\ auto_mode_in = 0
        /\ stack[t] = <<>>
        /\ wlog[t] = <<>>

Commands == {"/power/on", "/power/off", "/power/toggle", "/power/1/on",
             "/power/1/off", "/power/2/on", "/power/2/off"}
Toggles == {"/power/toggle", "onoff_button"}
Writes(t) == SelectSeq(wlog[t], LAMBDA e : e[1] # "sleep")

\* C6: in manual control mode (autoMode false) no command of the web API
\* changes a relay output: a step taken while auto_mode_in is 0 leaves both
\* relay outputs as they were.
C6_ManualModeCommandsInert ==
    [][auto_mode_in = 0 =>
          (relay_out_1' = relay_out_1 /\ relay_out_2' = relay_out_2)]_vars

\* C7 as claimed: when power_toggle() has returned, a first reading of -1 has
\* written no relay and called nothing, a first reading of FullOn has called
\* power_off(), and every first reading below FullOn (Off, Stage1) has called
\* power_on().
C7_ToggleActsOnFirstReading ==
    \A t \in Threads :
        (handler[t] \in Toggles /\ stack[t] = <<>> /\ toggle_state[t] # <<>>) =>
            /\ toggle_state[t] = <<-1>> =>
                   (called[t] = <<"power_toggle">> /\ wlog[t] = <<>>)
            /\ toggle_state[t] = <<2>> => called[t] = <<"power_toggle", "power_off">>
            /\ toggle_state[t] \in {<<0>>, <<1>>} =>
                   called[t] = <<"power_toggle", "power_on">>

\* C7 as amended, the outcome: a first reading of -1 writes no relay and calls
\* nothing, a first reading of FullOn calls power_off(), and a first reading
\* below FullOn calls power_on() or nothing, never power_off(), and writes no
\* relay OFF.
ToggleOutcome ==
    \A t \in Threads :
        (handler[t] \in Toggles /\ toggle_state[t] # <<>>) =>
            /\ toggle_state[t] = <<-1>> =>
                   (called[t] = <<"power_toggle">> /\ wlog[t] = <<>>)
            /\ toggle_state[t] = <<2>> => called[t] = <<"power_toggle", "power_off">>
            /\ toggle_state[t] \in {<<0>>, <<1>>} =>
                   /\ called[t] \in {<<"power_toggle">>, <<"power_toggle", "power_on">>}
                   /\ \A i \in 1..Len(wlog[t]) : wlog[t][i][1] = "sleep"
                                                \/ wlog[t][i][2] = ON

\* C7 as amended, the second reading: after a first reading below FullOn,
\* power_toggle() reads the PowerState again and calls power_on() exactly when
\* that second reading is below FullOn.
ToggleSecondReading ==
    \A t \in Threads :
        (/\ Returning(t, "get_power_state")
         /\ stack[t][2] = <<"power_toggle", "323">>
         /\ stack'[t] # stack[t]) =>
            /\ toggle_state[t] \in {<<0>>, <<1>>}
            /\ IF ret[t][1] < 2
               THEN /\ called'[t] = <<"power_toggle", "power_on">>
                    /\ stack'[t] = call_get_power_state(<<"power_on", "281">>)
               ELSE /\ called'[t] = <<"power_toggle">>
                    /\ stack'[t] = <<>>

\* C7 (amended): power_toggle() acts on its first reading of the PowerState
\* when that is -1 (nothing written) or FullOn (power_off() is called); on a
\* first reading below FullOn it reads the PowerState a second time and calls
\* power_on() exactly when the second reading is below FullOn, else nothing;
\* from Off or Stage1 it never calls power_off() and never writes a relay OFF.
C7_ToggleReadsTwice == []ToggleOutcome /\ [][ToggleSecondReading]_vars

\* C7 witness: a toggle that read Stage1 has called power_on(), which wrote
\* relay 2 ON and returned
C7_Witness ==
    \E t \in Threads :
        /\ handler[t] \in Toggles
        /\ toggle_state[t] = <<1>>
        /\ called[t] = <<"power_toggle", "power_on">>
        /\ wlog[t] = << <<"relay2", ON>> >>
        /\ stack[t] = <<>>

\* C8: two power_on() invocations on the device at the same time, each having
\* read Off, write what one invocation writes: the relay writes all belong to
\* one of the two.
C8_ConcurrentPowerOnWritesOnce ==
    \A t, u \in Threads :
        (/\ t # u
         /\ LastCalled(t) = "power_on" /\ power_state[t] = <<0>>
         /\ LastCalled(u) = "power_on" /\ power_state[u] = <<0>>) =>
            (Writes(t) = <<>> \/ Writes(u) = <<>>)

\* a sequencing operation between its state read and its last relay write
InFlight(t) ==
    /\ stack[t] # <<>>
    /\ Head(stack[t])[1] \in {"power_on", "power_off"}

\* C9: at most one sequencing operation is in flight at any time.
C9_AtMostOneInFlight == Cardinality({t \in Threads : InFlight(t)}) <= 1

\* C10: the single-relay driver: a turn_on() / turn_off() that found autoMode
\* false raises AutoControlDisabled and writes nothing; one that found it true
\* writes the control output once, ON for turn_on, OFF for turn_off.
C10_DriverGate ==
    \A t \in Threads :
        /\ drv_mode[t] = <<0>> =>
               (drv_pc[t] = "AutoControlDisabled" /\ drv_log[t] = <<>>)
        /\ drv_mode[t] = <<1>> =>
               /\ drv_pc[t] \in {"71", "returned"}
               /\ drv_pc[t] = "71" => drv_log[t] = <<>>
               /\ drv_pc[t] = "returned" =>
                      drv_log[t] = <<(drv_fn[t] = "turn_on")>>
        /\ drv_pc[t] \in {"71", "returned", "AutoControlDisabled"} =>
               drv_mode[t] # <<>>

\* C10 witness: turn_on() raised AutoControlDisabled in manual mode, and a
\* turn_off() in automatic mode wrote OFF
C10_Witness ==
    \E t, u \in Threads :
        /\ drv_fn[t] = "turn_on" /\ drv_pc[t] = "AutoControlDisabled"
        /\ drv_log[t] = <<>>
        /\ drv_fn[u] = "turn_off" /\ drv_pc[u] = "returned"
        /\ drv_log[u] = <<FALSE>> /\ control_out = FALSE

\* the state control(state) passes on: ON for turn_on, OFF for turn_off
control_state(v) == IF v = "turn_on" THEN DRV_ON ELSE DRV_OFF

\* C11: a power/on or power/off request of the single-channel web API that is
\* answered while automatic control is disabled gets 403, never a server
\* error; one answered while automatic control is enabled gets the success
\* response, the control output having been written.
C11_ControlOutcome ==
    [][\A t \in Threads :
          (web_view[t] \in {"turn_on", "turn_off"} /\ web_resp[t] = 0
           /\ web_resp'[t] # 0) =>
              IF Truthy(drv_auto_mode_in)
              THEN web_resp'[t] = 200 /\ control_out' = control_state(web_view[t])
              ELSE web_resp'[t] = 403]_vars

\* thread t is between the first and the last write of a sequence
MidSequence(t) ==
    \/ At(t, "power_on", "288")
    \/ At(t, "power_on", "289")
    \/ At(t, "power_off", "302")
    \/ At(t, "power_off", "303")

\* a thread leaves the middle of a sequence only by making its last write
LeavesByLastWrite ==
    \A t \in Threads :
        (MidSequence(t) /\ stack'[t] # stack[t] /\ ~MidSequence(t)') =>
            \/ LastCalled(t) = "power_on" /\ wlog'[t] = PowerOnFromOff
            \/ LastCalled(t) = "power_off" /\ wlog'[t] = PowerOffFromFullOn

\* C12: a sequence that has started runs to completion: a power_on() that has
\* written relay 1 ON from Off goes on to write relay 2 ON, and a power_off()
\* that has written relay 2 OFF from FullOn goes on to write relay 1 OFF,
\* whatever the switches and the other thread do meanwhile: no thread stays in
\* the middle of a sequence for ever, and the only way out of the middle of a
\* sequence is its last write.
C12_SequenceCompletes ==
    /\ \A t \in Threads : []<>(~MidSequence(t))
    /\ [][LeavesByLastWrite]_vars

\* C12 witness: a power_off() from FullOn has made its second write after the
\* other thread served a request and a switch changed during its cool-down
C12_Witness ==
    \E t, u \in Threads :
        /\ t # u
        /\ LastCalled(t) = "power_off" /\ wlog[t] = PowerOffFromFullOn
        /\ handler[u] # "idle"
        /\ auto_mode_in = 0

PowerOnFromStage1 == << <<"relay2", ON>> >>
PowerOffFromStage1 == << <<"relay1", OFF>> >>

\* C13: a power_on() that read PowerState Stage1 makes exactly one relay
\* write, relay 2 ON, with no sleep before it and no write to relay 1: its
\* writes and sleeps are a prefix of that one write at every moment, exactly
\* that write once it has returned, and it never starts a sleep.
C13_PowerOnFromStage1 ==
    \A t \in Threads :
        (LastCalled(t) = "power_on" /\ power_state[t] = <<1>>) =>
            /\ IsPrefix(wlog[t], PowerOnFromStage1)
            /\ stack[t] = <<>> => wlog[t] = PowerOnFromStage1
            /\ timer[t] = 0

\* C13 witness: a power_on() from Stage1 has returned after its one write
C13_Witness ==
    \E t \in Threads :
        /\ handler[t] = "/power/on"
        /\ power_state[t] = <<1>>
        /\ stack[t] = <<>>
        /\ wlog[t] = PowerOnFromStage1

\* C14: a power_off() that read PowerState Stage1 makes exactly one relay
\* write, relay 1 OFF, with no sleep and no write to relay 2, and the relay 2
\* output is OFF when that write is due.
C14_PowerOffFromStage1 ==
    \A t \in Threads :
        (LastCalled(t) = "power_off" /\ power_state[t] = <<1>>) =>
            /\ IsPrefix(wlog[t], PowerOffFromStage1)
            /\ stack[t] = <<>> => wlog[t] = PowerOffFromStage1
            /\ timer[t] = 0
            /\ At(t, "power_off", "306") => relay_out_2 = OFF

\* C14 without the level of the relay 2 output
C14_OneWrite ==
    \A t \in Threads :
        (LastCalled(t) = "power_off" /\ power_state[t] = <<1>>) =>
            /\ IsPrefix(wlog[t], PowerOffFromStage1)
            /\ stack[t] = <<>> => wlog[t] = PowerOffFromStage1
            /\ timer[t] = 0

\* C15: the stage order: with no per-channel write made, whatever the
\* interleaving of power_on, power_off and power_toggle invocations and
\* whatever the switches do, the relay 2 output is ON only while the relay 1
\* output is ON.
C15_StageOrder == relay_out_2 = ON => relay_out_1 = ON

\* the handlers that run power_on, power_off or power_toggle
Sequencers == {"/power/on", "/power/off", "/power/toggle", "onoff_button"}

\* C16: power_on(), power_off() and power_toggle() write no relay while the
\* manual override input is on, whatever autoMode is: no step of theirs taken
\* while manual_mode_in is 1 adds a relay write.
C16_NoWriteUnderManualOverride ==
    [][\A t \in Threads :
          (handler[t] \in Sequencers /\ manual_mode_in = 1) =>
              Writes(t)' = Writes(t)]_vars

\* the PowerState of the lines as they are
PowerStateNow == PrecedenceTable(auto_mode_in, manual_mode_in, relay_out_1, relay_out_2)

\* power/on has returned with the device FullOn, power/off with the device
\* Off, and a power/on that follows a power/on, or a power/off a power/off,
\* writes no relay
SettlesAndRepeats(t) ==
    /\ (handler[t] = "/power/on" /\ stack[t] = <<>>) => PowerStateNow = 2
    /\ (handler[t] = "/power/off" /\ stack[t] = <<>>) => PowerStateNow = 0
    /\ (handler[t] \in {"/power/on", "/power/off"} /\ last_done[t] = handler[t]) =>
           wlog[t] = <<>>

\* C17 as claimed: with autoMode true, on switches that stay as they are and
\* with nothing else running, the PowerState after power_on() has returned is
\* FullOn and after power_off() has returned is Off, from every starting
\* state, and a second identical call right after writes no relay.
C17_SettlesFromEveryState ==
    auto_mode_in = 1 => SettlesAndRepeats("w1")

\* C17 (amended): the same with the manual override input off.
C17_SettlesWithoutOverride ==
    (auto_mode_in = 1 /\ manual_mode_in = 0) => SettlesAndRepeats("w1")

\* C17 witness: a power/off that follows a power/off has returned with the
\* device Off and nothing written, and a power/on started from relay 2 alone
\* ON has returned with the device FullOn
C17_Witness ==
    /\ auto_mode_in = 1 /\ manual_mode_in = 0
    /\ stack["w1"] = <<>>
    /\ \/ /\ handler["w1"] = "/power/off" /\ last_done["w1"] = "/power/off"
          /\ wlog["w1"] = <<>> /\ PowerStateNow = 0
       \/ /\ handler["w1"] = "/power/on" /\ last_done["w1"] = "none"
          /\ relay_out_1 = OFF /\ relay_out_2 = ON /\ PowerStateNow = 2

----
\* get_power_state while the switches move, the PowerStates the lines held
\* during the call being kept in seen

\* thread t is inside a call of get_power_state
InCall(t) ==
    \E i \in 1..Len(stack[t]) :
        stack[t][i][1] = "get_power_state" /\ stack[t][i][2] # "return"

\* the lines have changed to am, mo, out1, out2
Watch(am, mo, out1, out2) ==
    seen' = [t \in Threads |->
                IF InCall(t) THEN seen[t] \cup {PrecedenceTable(am, mo, out1, out2)}
                ELSE seen[t]]

\* Request for /power: output_status calls get_power_state first
RequestWatched(t) ==
    /\ process = "running"
    /\ handler[t] = "idle"
    /\ handler' = [handler EXCEPT ![t] = "/power"]
    /\ stack' = [stack EXCEPT ![t] = view("/power")]
    /\ called' = [called EXCEPT ![t] = view_calls("/power")]
    /\ seen' = [seen EXCEPT ![t] = {PowerStateNow}]
    /\ UNCHANGED <<lines, ret, power_state, toggle_state, timer, wlog, drvvars,
                   webvars, process, last_done>>

AutoModeSwitchWatched ==
    /\ auto_mode_in' = 1 - auto_mode_in
    /\ Watch(1 - auto_mode_in, manual_mode_in, relay_out_1, relay_out_2)
    /\ UNCHANGED <<manual_mode_in, relay_out_1, relay_out_2, handler, stack, locals,
                   drvvars, webvars, process, last_done>>

ManualModeSwitchWatched ==
    /\ manual_mode_in' = 1 - manual_mode_in
    /\ Watch(auto_mode_in, 1 - manual_mode_in, relay_out_1, relay_out_2)
    /\ UNCHANGED <<auto_mode_in, relay_out_1, relay_out_2, handler, stack, locals,
                   drvvars, webvars, process, last_done>>

NextTorn ==
    \/ AutoModeSwitchWatched
    \/ ManualModeSwitchWatched
    \/ RequestWatched("w1")
    \/ Evaluate("w1")
    \/ OutputStatus127("w1")
    \/ OutputStatus130("w1")
    \/ OutputStatus131("w1")
    \/ Respond("w1")

SpecTorn == InitStill /\ [][NextTorn]_vars

\* C18: the value get_power_state returns is the precedence-table value of
\* one snapshot of the four lines that they held at some instant of the call,
\* also when the switches change during the call.
C18_SingleSnapshot ==
    \A t \in Threads :
        (Returning(t, "get_power_state") /\ handler[t] = "/power") =>
            ret[t][1] \in seen[t]

\* C19: after gpio_setup() both relay outputs are OFF, and after finish() has
\* run both relay outputs are OFF: the step that ends gpio_setup and the step
\* that ends finish leave relay_out_1 and relay_out_2 OFF.
C19_FailSafeOff ==
    [][(process' # process /\ process' \in {"running", "exited"}) =>
          (relay_out_1' = OFF /\ relay_out_2' = OFF)]_vars

\* C19, gpio_setup alone
C19_OffAfterSetup ==
    [][(process' # process /\ process' = "running") =>
          (relay_out_1' = OFF /\ relay_out_2' = OFF)]_vars

====
